---- MODULE Spec2Model ----
(***************************************************************************)
(* AutoHeal (src/main.py): the monitoring loop of AutoHealMonitor, the     *)
(* per-device health check of SNMPMonitor, the issue analysis, the alert   *)
(* gate and the remediation dispatch of NetworkRemediator.                 *)
(*                                                                         *)
(* One monitor_device coroutine per device per cycle is a task; a task     *)
(* advances one await at a time (check_device_health, then persistence and *)
(* analysis, then per issue send_alert + the call of remediate_issue, then *)
(* the return of remediate_issue + log_remediation).  Tasks of one batch   *)
(* interleave at those points, which is at least the interleaving the      *)
(* asyncio event loop can produce.                                         *)
(***************************************************************************)
EXTENDS Integers, Sequences, FiniteSets, TLC

(***************************************************************************)
(* Bounds of the model.                                                    *)
(***************************************************************************)
\* number of monitoring cycles explored (cycle is also the clock)
MaxCycles == 4
\* number of direct remediate_issue calls explored by SpecDispatch
MaxCalls == 2

(***************************************************************************)
(* Program constants.                                                      *)
(***************************************************************************)
\* _analyze_health_data: device.failure_count >= 3
FailureThreshold == 3
\* _analyze_health_data: cpu_usage > 80
CpuThreshold == 80
\* _analyze_health_data: memory_usage > 85
MemoryThreshold == 85
\* check_device_health: uptime = int(sysUpTime) / 100
TicksPerSecond == 100
\* _get_interface_status: 'up' if if_status == 1 else 'down'
IfOperUp == 1

\* default_config["devices"]: ip -> priority
DeviceConfig ==
    [ip \in {"192.168.1.10", "192.168.1.11"} |->
        IF ip = "192.168.1.10" THEN "critical" ELSE "high"]

Devices == DOMAIN DeviceConfig

(***************************************************************************)
(* Python values.  None is <<>>, a number n is <<n>>; a dict is a function *)
(* whose DOMAIN is the set of keys present.                                *)
(***************************************************************************)
PyNone == <<>>

Num(n) == <<n>>

EmptyDict == [k \in {} |-> PyNone]

\* dict.get(key, default)
DictGet(d, key, default) == IF key \in DOMAIN d THEN d[key] ELSE default

\* x > n in Python 3 raises TypeError when x is None
GtRaises(x) == x = PyNone

Gt(x, n) == x # PyNone /\ x[1] > n

(***************************************************************************)
(* What the network answers to one health check (the pysnmp calls).        *)
(***************************************************************************)
IfNames == {"Gi0/1", "Gi0/2"}

\* ifOperStatus values seen on the wire: 1 up, 2 down
IfOperStatus == {1, 2}

SysUpTimeTicks == {360000}

\* the interface walk answers for every interface, or breaks on its first row
InterfaceWalks == [IfNames -> IfOperStatus] \cup {EmptyDict}

\* errorIndication or errorStatus: "requestTimedOut" is the errorIndication
\* pysnmp hands back when no answer came within its transport timeout
Indications == {"requestTimedOut", "other"}

SnmpReplies ==
    {[kind |-> "errorIndication", indication |-> i] : i \in Indications}
    \cup {[kind |-> "exception"]}
    \cup {[kind |-> "ok", ticks |-> t, walk |-> w] :
            t \in SysUpTimeTicks, w \in InterfaceWalks}

(***************************************************************************)
(* NetworkDevice                                                           *)
(***************************************************************************)
NetworkDevice ==
    [status |-> "unknown", last_seen |-> PyNone, failure_count |-> 0,
     interfaces |-> EmptyDict]

(***************************************************************************)
(* SNMPMonitor                                                             *)
(***************************************************************************)
\* _get_interface_status: name -> {'status', 'admin_status'}
get_interface_status(walk) ==
    [i \in DOMAIN walk |->
        [status |-> IF walk[i] = IfOperUp THEN "up" ELSE "down",
         admin_status |-> walk[i]]]

\* mutant: the except branch labels the device down instead of error
check_device_health_fault_marks_down(device) ==
    [device |-> [device EXCEPT !.status = "down",
                               !.failure_count = device.failure_count + 1],
     health_data |-> [reachable |-> FALSE, error |-> "exception"]]

\* except Exception of check_device_health
check_device_health_fault(device) ==
    [device |-> [device EXCEPT !.status = "error",
                               !.failure_count = device.failure_count + 1],
     health_data |-> [reachable |-> FALSE, error |-> "exception"]]

\* mutant: an unanswered poll is not counted
check_device_health_down_keeps_count(device) ==
    [device |-> [device EXCEPT !.status = "down"],
     health_data |-> [reachable |-> FALSE, uptime |-> PyNone,
                      cpu_usage |-> PyNone, memory_usage |-> PyNone,
                      interfaces |-> EmptyDict]]

\* the else branch: no reply, or errorIndication / errorStatus
check_device_health_down(device) ==
    [device |-> [device EXCEPT !.status = "down",
                               !.failure_count = device.failure_count + 1],
     health_data |-> [reachable |-> FALSE, uptime |-> PyNone,
                      cpu_usage |-> PyNone, memory_usage |-> PyNone,
                      interfaces |-> EmptyDict]]

\* mutant: a successful poll that forgets to reset the failure count
check_device_health_up_keeps_count(device, reply, now) ==
    [device |-> [device EXCEPT !.status = "up", !.last_seen = Num(now)],
     health_data |-> [reachable |-> TRUE,
                      uptime |-> Num(reply.ticks \div TicksPerSecond),
                      cpu_usage |-> PyNone, memory_usage |-> PyNone,
                      interfaces |-> get_interface_status(reply.walk)]]

\* the reachable branch
check_device_health_up(device, reply, now) ==
    [device |-> [device EXCEPT !.status = "up",
                               !.last_seen = Num(now),
                               !.failure_count = 0],
     health_data |-> [reachable |-> TRUE,
                      uptime |-> Num(reply.ticks \div TicksPerSecond),
                      cpu_usage |-> PyNone, memory_usage |-> PyNone,
                      interfaces |-> get_interface_status(reply.walk)]]

\* check_device_health: the device as left by the check, and the dict returned
check_device_health(device, reply, now) ==
    CASE reply.kind = "exception" -> check_device_health_fault(device)
      [] reply.kind = "errorIndication" -> check_device_health_down(device)
      [] reply.kind = "ok" -> check_device_health_up(device, reply, now)

(***************************************************************************)
(* AutoHealMonitor._analyze_health_data                                    *)
(***************************************************************************)
\* mutant: the threshold test is off by one
unresponsive_issue_early(device, health_data) ==
    IF ~DictGet(health_data, "reachable", FALSE)
       /\ device.failure_count >= FailureThreshold - 1
    THEN <<[issue_type |-> "device_unresponsive",
            details |-> [failure_count |-> device.failure_count,
                         last_seen |-> device.last_seen]]>>
    ELSE <<>>

unresponsive_issue(device, health_data) ==
    IF ~DictGet(health_data, "reachable", FALSE)
       /\ device.failure_count >= FailureThreshold
    THEN <<[issue_type |-> "device_unresponsive",
            details |-> [failure_count |-> device.failure_count,
                         last_seen |-> device.last_seen]]>>
    ELSE <<>>

down_interfaces(health_data) ==
    LET ifs == DictGet(health_data, "interfaces", EmptyDict)
    IN {i \in DOMAIN ifs : ifs[i].status = "down"}

\* mutant: the details carry the whole interface map
interface_down_issue_full_map(health_data) ==
    IF down_interfaces(health_data) # {}
    THEN <<[issue_type |-> "interface_down",
            details |-> [interfaces |-> health_data.interfaces]]>>
    ELSE <<>>

interface_down_issue(health_data) ==
    IF down_interfaces(health_data) # {}
    THEN <<[issue_type |-> "interface_down",
            details |-> [interfaces |->
                [i \in down_interfaces(health_data) |->
                    health_data.interfaces[i]]]]>>
    ELSE <<>>

high_cpu_issue(health_data) ==
    IF Gt(DictGet(health_data, "cpu_usage", Num(0)), CpuThreshold)
    THEN <<[issue_type |-> "high_cpu",
            details |-> [cpu_usage |-> health_data.cpu_usage]]>>
    ELSE <<>>

memory_leak_issue(health_data) ==
    IF Gt(DictGet(health_data, "memory_usage", Num(0)), MemoryThreshold)
    THEN <<[issue_type |-> "memory_leak",
            details |-> [memory_usage |-> health_data.memory_usage]]>>
    ELSE <<>>

\* the comparisons of lines 519 and 522 raise TypeError on a None metric
analyze_raises(health_data) ==
    \/ GtRaises(DictGet(health_data, "cpu_usage", Num(0)))
    \/ GtRaises(DictGet(health_data, "memory_usage", Num(0)))

\* the issues dict in insertion order, or the exception that leaves the function
analyze_health_data(device, health_data) ==
    IF analyze_raises(health_data)
    THEN [raises |-> TRUE, issues |-> <<>>]
    ELSE [raises |-> FALSE,
          issues |-> unresponsive_issue(device, health_data)
                     \o interface_down_issue(health_data)
                     \o high_cpu_issue(health_data)
                     \o memory_leak_issue(health_data)]

(***************************************************************************)
(* NetworkRemediator                                                       *)
(***************************************************************************)
\* mutant: no handler is registered for memory_leak
remediation_methods_without_memory ==
    [interface_down |-> "_fix_interface",
     device_unresponsive |-> "_reboot_device",
     high_cpu |-> "_restart_processes"]

\* self.remediation_methods
remediation_methods ==
    [interface_down |-> "_fix_interface",
     device_unresponsive |-> "_reboot_device",
     high_cpu |-> "_restart_processes",
     memory_leak |-> "_clear_memory"]

\* what the netmiko session does inside a handler; "none" when none is opened
handler_session(handler) ==
    IF handler \in {"_fix_interface", "_reboot_device"}
    THEN {"ok", "raises"}
    ELSE {"none"}

\* mutant: the handler reports success whatever the session did
fix_interface_reports_success(io) ==
    [success |-> TRUE, message |-> <<"Interfaces remediated">>]

\* _fix_interface: its own try/except turns a session fault into a result
fix_interface(io) ==
    IF io = "raises"
    THEN [success |-> FALSE, error |-> "exception"]
    ELSE [success |-> TRUE, message |-> <<"Interfaces remediated">>]

\* _reboot_device: its own try/except turns a session fault into a result
reboot_device(io) ==
    IF io = "raises"
    THEN [success |-> FALSE, error |-> "exception"]
    ELSE [success |-> TRUE, message |-> <<"Device rebooted">>]

\* _restart_processes opens no session
restart_processes(io) == [success |-> TRUE, message |-> <<"Processes restarted">>]

\* _clear_memory opens no session
clear_memory(io) == [success |-> TRUE, message |-> <<"Memory cleared">>]

call_handler(handler, io) ==
    CASE handler = "_fix_interface" -> fix_interface(io)
      [] handler = "_reboot_device" -> reboot_device(io)
      [] handler = "_restart_processes" -> restart_processes(io)
      [] handler = "_clear_memory" -> clear_memory(io)

\* mutant: an unknown issue type falls back to the reboot handler
lookup_handler_with_default(issue_type) ==
    IF issue_type \in DOMAIN remediation_methods
    THEN <<remediation_methods[issue_type]>>
    ELSE <<"_reboot_device">>

\* the handler remediate_issue looks up, <<>> when none is registered
lookup_handler(issue_type) ==
    IF issue_type \in DOMAIN remediation_methods
    THEN <<remediation_methods[issue_type]>>
    ELSE <<>>

\* the sessions the call of remediate_issue can meet
remediation_sessions(issue_type) ==
    IF lookup_handler(issue_type) # <<>>
    THEN handler_session(lookup_handler(issue_type)[1])
    ELSE {"none"}

\* except Exception of remediate_issue: a handler that raised (a value with
\* a "raised" key; no registered handler lets one out) becomes a result
remediation_except(returned) ==
    IF "raised" \in DOMAIN returned
    THEN [success |-> FALSE, error |-> "exception"]
    ELSE returned

\* remediate_issue: the dict returned; f'No remediation for {issue_type}'
remediate_issue(issue_type, io) ==
    IF lookup_handler(issue_type) # <<>>
    THEN remediation_except(call_handler(lookup_handler(issue_type)[1], io))
    ELSE [success |-> FALSE,
          message |-> <<"No remediation for ", issue_type>>]

\* mutant: only successful remediations are logged
log_remediation_on_success_only(log, issue_type, remediation_result) ==
    IF DictGet(remediation_result, "success", FALSE)
    THEN Append(log, [issue_type |-> issue_type,
                      remediation_type |-> issue_type,
                      success |-> TRUE,
                      details |-> remediation_result])
    ELSE log

\* DatabaseManager.log_remediation: the row handed to remediation_log
log_remediation(log, issue_type, remediation_result) ==
    Append(log, [issue_type |-> issue_type,
                 remediation_type |-> issue_type,
                 success |-> DictGet(remediation_result, "success", FALSE),
                 details |-> remediation_result])

(***************************************************************************)
(* DatabaseManager.save_monitoring_data                                    *)
(***************************************************************************)
\* mutant: only the snapshots of reachable devices are stored
save_monitoring_data_reachable_only(calls, health_data) ==
    IF DictGet(health_data, "reachable", FALSE) THEN calls + 1 ELSE calls

\* one INSERT per call whatever the snapshot; its own except swallows a
\* sqlite fault.  calls counts the snapshots handed over in this cycle
save_monitoring_data(calls, health_data) == calls + 1

(***************************************************************************)
(* AlertManager.send_alert                                                 *)
(***************************************************************************)
\* json.dumps(details) raises TypeError on a datetime (details['last_seen'])
json_dumps_raises(details) ==
    "last_seen" \in DOMAIN details /\ details.last_seen # PyNone

\* what the SMTP server does when smtp.enabled
SmtpOutcomes == {"ok", "raises"}

\* "sent" when line 303 is reached, "failed" when the except of line 305 is
send_alert(details, smtp_enabled, smtp) ==
    IF json_dumps_raises(details) \/ (smtp_enabled /\ smtp = "raises")
    THEN "failed"
    ELSE "sent"

\* mutant: a high priority counts as critical too
alert_severity_high_is_critical(priority) ==
    IF priority \in {"critical", "high"} THEN "critical" ELSE "medium"

\* monitor_device: severity passed to send_alert
alert_severity(priority) == IF priority = "critical" THEN "critical" ELSE "medium"

(***************************************************************************)
(* State                                                                   *)
(***************************************************************************)
VARIABLES
    config,           \* remediation_enabled, alert_enabled, smtp_enabled
    running,          \* AutoHealMonitor.running
    loop_pc,          \* monitoring_loop: idle, while, gather, sleep, stopped
    cycle,            \* cycles started so far; the clock read by datetime.now()
    devices,          \* AutoHealMonitor.devices: ip -> NetworkDevice
    tasks,            \* the monitor_device coroutines gather is awaiting
    run,              \* ip -> unsuccessful polls since the last successful one
    last_reply,       \* ip -> what the network answered to the last check
    polled,           \* ip -> check_device_health calls of this cycle
    saved,            \* ip -> save_monitoring_data calls of this cycle
    analysis,         \* ip -> "none", "returned" or "raised" in this cycle
    raised,           \* ip -> issue types analysis returned in this cycle
    alerts,           \* ip -> send_alert calls of this cycle
    attempts,         \* ip -> remediate_issue calls of this cycle
    in_flight,        \* ip -> remediate_issue calls that have not returned
    remediation_log,  \* ip -> log_remediation calls of this cycle
    sessions,         \* ip -> what the handler's session did, per attempt
    dispatch_result,  \* last result of a direct remediate_issue call
    handler_calls,    \* handlers invoked by direct remediate_issue calls
    analyzed,         \* last direct check and analysis: reply, device, result
    system_status,    \* what the last get_system_status call returned
    unresponsive_cycles,  \* ip -> consecutive cycles, up to the last analysed
                          \* one, whose analysis returned device_unresponsive
    unresponsive_alerts   \* ip -> send_alert calls for it over those cycles

loopvars == <<running, loop_pc, cycle>>

cyclevars ==
    <<polled, saved, analysis, raised, alerts, attempts, in_flight,
      remediation_log, sessions>>

dispatchvars == <<dispatch_result, handler_calls, analyzed, system_status>>

historyvars == <<unresponsive_cycles, unresponsive_alerts>>

vars ==
    <<config, loopvars, devices, tasks, run, last_reply, cyclevars,
      dispatchvars, historyvars>>

Configs ==
    [remediation_enabled : BOOLEAN, alert_enabled : BOOLEAN,
     smtp_enabled : BOOLEAN]

\* before the first direct call
NoCall ==
    [device |-> "", issue_type |-> "", invoked |-> <<>>,
     result |-> EmptyDict]

\* before the first get_system_status call
NoStatus == [called |-> FALSE]

\* before the first direct check and analysis
NoAnalysis ==
    [called |-> FALSE, reply |-> EmptyDict, before |-> NetworkDevice,
     device |-> NetworkDevice, health_data |-> EmptyDict,
     raises |-> FALSE, issues |-> <<>>]

Init ==
    /\ config \in Configs
    /\ running = FALSE
    /\ loop_pc = "idle"
    /\ cycle = 0
    /\ devices = [d \in Devices |-> NetworkDevice]
    /\ tasks = {}
    /\ run = [d \in Devices |-> 0]
    /\ last_reply = [d \in Devices |-> "none"]
    /\ polled = [d \in Devices |-> 0]
    /\ saved = [d \in Devices |-> 0]
    /\ analysis = [d \in Devices |-> "none"]
    /\ raised = [d \in Devices |-> <<>>]
    /\ alerts = [d \in Devices |-> <<>>]
    /\ attempts = [d \in Devices |-> <<>>]
    /\ in_flight = [d \in Devices |-> 0]
    /\ remediation_log = [d \in Devices |-> <<>>]
    /\ sessions = [d \in Devices |-> <<>>]
    /\ dispatch_result = NoCall
    /\ handler_calls = <<>>
    /\ analyzed = NoAnalysis
    /\ system_status = NoStatus
    /\ unresponsive_cycles = [d \in Devices |-> 0]
    /\ unresponsive_alerts = [d \in Devices |-> 0]

(***************************************************************************)
(* monitor_device, one await at a time                                     *)
(***************************************************************************)
\* the coroutine gather schedules for one device
monitor_device(d, n) ==
    [device |-> d, cycle |-> n, pc |-> "check", health_data |-> EmptyDict,
     issues |-> <<>>]

\* the coroutine has returned; its locals are gone
Returned(t) ==
    [t EXCEPT !.pc = "done", !.health_data = EmptyDict, !.issues = <<>>]

\* the for loop over issues.items(): next issue, or fall off the end
next_issue(t, rest) ==
    IF rest = <<>> THEN Returned(t)
    ELSE [t EXCEPT !.pc = "issue", !.issues = rest]

\* mutant: the exception leaves the coroutine pending for ever
monitor_device_except_never_returns(ts, t) ==
    (ts \ {t}) \cup {[t EXCEPT !.pc = "raised"]}

\* mutant: an exception in one coroutine ends the whole batch
monitor_device_except_ends_batch(ts, t) == {Returned(x) : x \in ts}

\* except Exception of monitor_device: logged, the coroutine returns
monitor_device_except(ts, t) == (ts \ {t}) \cup {Returned(t)}

\* the tasks of the batch after task t has moved to t2
task_step(ts, t, t2) == (ts \ {t}) \cup {t2}

IssueTypes(issues) == [i \in DOMAIN issues |-> issues[i].issue_type]

\* mutant: remediate_issue is started and not awaited
remediation_not_awaited(t) == next_issue(t, Tail(t.issues))

\* await self.remediator.remediate_issue(...): suspended until it returns
await_remediation(t) == [t EXCEPT !.pc = "remediate"]

\* mutant: the devices share one object, a check writes to all of them
set_device_shared(devs, ip, device) == [e \in DOMAIN devs |-> device]

\* check_device_health assigns the fields of the device object it was given
set_device(devs, ip, device) == [devs EXCEPT ![ip] = device]

\* await self.snmp_monitor.check_device_health(device)
Poll(t, checked, kind) ==
    /\ devices' = set_device(devices, t.device, checked.device)
    /\ run' = [run EXCEPT ![t.device] = IF kind = "ok" THEN 0 ELSE @ + 1]
    /\ last_reply' = [last_reply EXCEPT ![t.device] = kind]
    /\ polled' = [polled EXCEPT ![t.device] = @ + 1]
    /\ tasks' = task_step(tasks, t,
                    [t EXCEPT !.pc = "analyze",
                              !.health_data = checked.health_data])
    /\ UNCHANGED <<config, loopvars, saved, analysis, raised, alerts,
                   attempts, in_flight, remediation_log, sessions,
                   dispatchvars, historyvars>>

CheckDeviceHealth(t) ==
    /\ loop_pc = "gather"
    /\ t.pc = "check"
    /\ \E reply \in SnmpReplies :
          Poll(t, check_device_health(devices[t.device], reply, cycle),
               reply.kind)

\* save_monitoring_data, then _analyze_health_data
AnalyzeHealth(t) ==
    /\ loop_pc = "gather"
    /\ t.pc = "analyze"
    /\ saved' = [saved EXCEPT ![t.device] =
                    save_monitoring_data(@, t.health_data)]
    /\ LET res == analyze_health_data(devices[t.device], t.health_data)
       IN IF res.raises
          THEN /\ analysis' = [analysis EXCEPT ![t.device] = "raised"]
               /\ tasks' = monitor_device_except(tasks, t)
               /\ UNCHANGED raised
          ELSE /\ analysis' = [analysis EXCEPT ![t.device] = "returned"]
               /\ raised' = [raised EXCEPT ![t.device] = IssueTypes(res.issues)]
               /\ tasks' = task_step(tasks, t, next_issue(t, res.issues))
    /\ IF \E i \in DOMAIN raised'[t.device] :
             raised'[t.device][i] = "device_unresponsive"
       THEN /\ unresponsive_cycles' =
                  [unresponsive_cycles EXCEPT ![t.device] = @ + 1]
            /\ UNCHANGED unresponsive_alerts
       ELSE /\ unresponsive_cycles' =
                  [unresponsive_cycles EXCEPT ![t.device] = 0]
            /\ unresponsive_alerts' =
                  [unresponsive_alerts EXCEPT ![t.device] = 0]
    /\ UNCHANGED <<config, loopvars, devices, run, last_reply, polled, alerts,
                   attempts, in_flight, remediation_log, sessions,
                   dispatchvars>>

\* mutant: a device_unresponsive that was already raised in the previous
\* cycle is not notified again
notify_once_per_episode(t, issue, smtp) ==
    IF /\ config.alert_enabled
       /\ ~(/\ issue.issue_type = "device_unresponsive"
            /\ unresponsive_cycles[t.device] > 1)
    THEN Append(alerts[t.device],
                [issue_type |-> issue.issue_type,
                 severity |-> alert_severity(DeviceConfig[t.device]),
                 outcome |-> send_alert(issue.details,
                                        config.smtp_enabled, smtp)])
    ELSE alerts[t.device]

\* if alert_enabled: await send_alert(device, issue_type, details, severity);
\* the send_alert calls of the device in this cycle after this issue
notify(t, issue, smtp) ==
    IF config.alert_enabled
    THEN Append(alerts[t.device],
                [issue_type |-> issue.issue_type,
                 severity |-> alert_severity(DeviceConfig[t.device]),
                 outcome |-> send_alert(issue.details,
                                        config.smtp_enabled, smtp)])
    ELSE alerts[t.device]

\* one turn of the for loop up to the call of remediate_issue
DispatchIssue(t) ==
    /\ loop_pc = "gather"
    /\ t.pc = "issue"
    /\ LET issue == Head(t.issues)
       IN /\ \E smtp \in SmtpOutcomes :
                alerts' = [alerts EXCEPT ![t.device] = notify(t, issue, smtp)]
          /\ unresponsive_alerts' =
                IF /\ issue.issue_type = "device_unresponsive"
                   /\ Len(alerts'[t.device]) > Len(alerts[t.device])
                THEN [unresponsive_alerts EXCEPT ![t.device] = @ + 1]
                ELSE unresponsive_alerts
          /\ IF config.remediation_enabled
             THEN /\ attempts' = [attempts EXCEPT ![t.device] =
                                     Append(@, issue.issue_type)]
                  /\ in_flight' = [in_flight EXCEPT ![t.device] = @ + 1]
                  /\ tasks' = task_step(tasks, t, await_remediation(t))
             ELSE /\ tasks' = task_step(tasks, t, next_issue(t, Tail(t.issues)))
                  /\ UNCHANGED <<attempts, in_flight>>
    /\ UNCHANGED <<config, loopvars, devices, run, last_reply, polled, saved,
                   analysis, raised, remediation_log, sessions, dispatchvars,
                   unresponsive_cycles>>

\* remediate_issue returns; log_remediation; the loop goes on
RemediationReturns(t) ==
    /\ loop_pc = "gather"
    /\ t.pc = "remediate"
    /\ \E io \in remediation_sessions(Head(t.issues).issue_type) :
        LET issue == Head(t.issues)
            remediation_result == remediate_issue(issue.issue_type, io)
        IN /\ in_flight' = [in_flight EXCEPT ![t.device] = @ - 1]
           /\ sessions' = [sessions EXCEPT ![t.device] = Append(@, io)]
           /\ remediation_log' = [remediation_log EXCEPT ![t.device] =
                 log_remediation(@, issue.issue_type, remediation_result)]
           /\ tasks' = task_step(tasks, t, next_issue(t, Tail(t.issues)))
    /\ UNCHANGED <<config, loopvars, devices, run, last_reply, polled, saved,
                   analysis, raised, alerts, attempts, dispatchvars,
                   historyvars>>

(***************************************************************************)
(* monitoring_loop and start_monitoring                                    *)
(***************************************************************************)
\* monitoring_loop is entered: self.running = True
StartMonitoring ==
    /\ loop_pc = "idle"
    /\ running' = TRUE
    /\ loop_pc' = "while"
    /\ UNCHANGED <<config, cycle, devices, tasks, run, last_reply, cyclevars,
                   dispatchvars, historyvars>>

\* while self.running: one coroutine per device handed to gather
StartCycle ==
    /\ loop_pc = "while"
    /\ running
    /\ cycle < MaxCycles
    /\ cycle' = cycle + 1
    /\ tasks' = tasks \cup {monitor_device(d, cycle + 1) : d \in Devices}
    /\ loop_pc' = "gather"
    /\ UNCHANGED <<config, running, devices, run, last_reply, cyclevars,
                   dispatchvars, historyvars>>

\* mutant: the loop goes on as soon as one coroutine has returned
gather_first_completed(ts) == \E t \in ts : t.pc = "done"

\* gather returns once every coroutine of the batch has returned
gather_done(ts) == \A t \in ts : t.pc = "done"

GatherReturns ==
    /\ loop_pc = "gather"
    /\ gather_done(tasks)
    /\ tasks' = {t \in tasks : t.pc # "done"}
    /\ loop_pc' = "sleep"
    /\ polled' = [d \in Devices |-> 0]
    /\ saved' = [d \in Devices |-> 0]
    /\ analysis' = [d \in Devices |-> "none"]
    /\ raised' = [d \in Devices |-> <<>>]
    /\ alerts' = [d \in Devices |-> <<>>]
    /\ attempts' = [d \in Devices |-> <<>>]
    /\ remediation_log' = [d \in Devices |-> <<>>]
    /\ sessions' = [d \in Devices |-> <<>>]
    /\ UNCHANGED <<config, running, cycle, devices, run, last_reply,
                   in_flight, dispatchvars, historyvars>>

\* asyncio.sleep(monitoring_interval) is over
SleepElapsed ==
    /\ loop_pc = "sleep"
    /\ loop_pc' = "while"
    /\ UNCHANGED <<config, running, cycle, devices, tasks, run, last_reply,
                   cyclevars, dispatchvars, historyvars>>

\* start_monitoring: KeyboardInterrupt, finally self.running = False, loop.close()
KeyboardInterrupt ==
    /\ loop_pc \in {"while", "gather", "sleep"}
    /\ running' = FALSE
    /\ loop_pc' = "stopped"
    /\ tasks' = {}
    /\ UNCHANGED <<config, cycle, devices, run, last_reply, cyclevars,
                   dispatchvars, historyvars>>

Next ==
    \/ StartMonitoring
    \/ StartCycle
    \/ \E t \in tasks : CheckDeviceHealth(t)
    \/ \E t \in tasks : AnalyzeHealth(t)
    \/ \E t \in tasks : DispatchIssue(t)
    \/ \E t \in tasks : RemediationReturns(t)
    \/ GatherReturns
    \/ SleepElapsed
    \/ KeyboardInterrupt

Spec == Init /\ [][Next]_vars

\* the next await of the coroutine of device d returns
TaskStep(d) ==
    \E t \in tasks :
        /\ t.device = d
        /\ \/ CheckDeviceHealth(t)
           \/ AnalyzeHealth(t)
           \/ DispatchIssue(t)
           \/ RemediationReturns(t)

\* the event loop runs every coroutine that is ready, the SNMP and SSH calls
\* return (answer or library timeout) and the sleep ends; nothing obliges
\* the user to interrupt the program
SpecLive ==
    /\ Init
    /\ [][Next]_vars
    /\ WF_vars(StartMonitoring)
    /\ WF_vars(StartCycle)
    /\ WF_vars(GatherReturns)
    /\ WF_vars(SleepElapsed)
    /\ \A d \in Devices : WF_vars(TaskStep(d))

(***************************************************************************)
(* The same loop around a collector that reports the cpu and memory        *)
(* metrics (check_device_health leaves both None).  Every reply of the     *)
(* shipped collector is one of its replies.                                *)
(***************************************************************************)
\* both metrics None, both at their thresholds, both above them
MetricReports ==
    {[cpu_usage |-> PyNone, memory_usage |-> PyNone],
     [cpu_usage |-> Num(CpuThreshold), memory_usage |-> Num(MemoryThreshold)],
     [cpu_usage |-> Num(CpuThreshold + 10),
      memory_usage |-> Num(MemoryThreshold + 5)]}

MetricReplies ==
    {[kind |-> "exception"]}
    \cup {[kind |-> "errorIndication", indication |-> i, metrics |-> m] :
            i \in Indications, m \in MetricReports}
    \cup {[kind |-> "ok", ticks |-> t, walk |-> w, metrics |-> m] :
            t \in SysUpTimeTicks, w \in InterfaceWalks, m \in MetricReports}

\* check_device_health with cpu_usage and memory_usage filled in from the reply
check_device_health_metrics(device, reply, now) ==
    LET checked == check_device_health(device, reply, now)
    IN IF reply.kind = "exception" THEN checked
       ELSE [checked EXCEPT
               !.health_data.cpu_usage = reply.metrics.cpu_usage,
               !.health_data.memory_usage = reply.metrics.memory_usage]

CheckDeviceHealthMetrics(t) ==
    /\ loop_pc = "gather"
    /\ t.pc = "check"
    /\ \E reply \in MetricReplies :
          Poll(t, check_device_health_metrics(devices[t.device], reply, cycle),
               reply.kind)

NextMetrics ==
    \/ StartMonitoring
    \/ StartCycle
    \/ \E t \in tasks : CheckDeviceHealthMetrics(t)
    \/ \E t \in tasks : AnalyzeHealth(t)
    \/ \E t \in tasks : DispatchIssue(t)
    \/ \E t \in tasks : RemediationReturns(t)
    \/ GatherReturns
    \/ SleepElapsed
    \/ KeyboardInterrupt

SpecMetrics == Init /\ [][NextMetrics]_vars

(***************************************************************************)
(* remediate_issue called directly, whatever the issue type                *)
(***************************************************************************)
IssueTypeInputs == DOMAIN remediation_methods \cup {"link_flap", "power_loss"}

DirectDispatch ==
    /\ Len(handler_calls) < MaxCalls
    /\ \E d \in Devices, issue_type \in IssueTypeInputs :
         \E io \in remediation_sessions(issue_type) :
           LET handler == lookup_handler(issue_type)
           IN /\ dispatch_result' =
                    [device |-> d, issue_type |-> issue_type,
                     invoked |-> handler,
                     result |-> remediate_issue(issue_type, io)]
              /\ handler_calls' =
                    IF handler = <<>> THEN handler_calls
                    ELSE Append(handler_calls,
                                [handler |-> handler[1], device |-> d])
    /\ UNCHANGED <<config, loopvars, devices, tasks, run, last_reply,
                   cyclevars, analyzed, system_status, historyvars>>

NextDispatch == DirectDispatch

SpecDispatch == Init /\ [][NextDispatch]_vars

(***************************************************************************)
(* check_device_health and then _analyze_health_data, called directly on   *)
(* what the network can answer, with each of the two metrics reported or   *)
(* left None on its own.                                                   *)
(***************************************************************************)
\* each metric None, at its threshold, or above it
IndependentMetricReports ==
    [cpu_usage : {PyNone, Num(CpuThreshold), Num(CpuThreshold + 10)},
     memory_usage : {PyNone, Num(MemoryThreshold), Num(MemoryThreshold + 5)}]

IndependentMetricReplies ==
    {[kind |-> "exception"]}
    \cup {[kind |-> "errorIndication", indication |-> i, metrics |-> m] :
            i \in Indications, m \in IndependentMetricReports}
    \cup {[kind |-> "ok", ticks |-> t, walk |-> w, metrics |-> m] :
            t \in SysUpTimeTicks, w \in InterfaceWalks,
            m \in IndependentMetricReports}

\* the device before the check, by its count of failed polls so far
PolledDevices ==
    {[NetworkDevice EXCEPT !.failure_count = n] : n \in 0..FailureThreshold}

DirectAnalyze ==
    /\ \E device \in PolledDevices, reply \in IndependentMetricReplies :
         LET checked == check_device_health_metrics(device, reply, 1)
             res == analyze_health_data(checked.device, checked.health_data)
         IN analyzed' = [called |-> TRUE, reply |-> reply, before |-> device,
                         device |-> checked.device,
                         health_data |-> checked.health_data,
                         raises |-> res.raises, issues |-> res.issues]
    /\ UNCHANGED <<config, loopvars, devices, tasks, run, last_reply,
                   cyclevars, dispatch_result, handler_calls, system_status,
                   historyvars>>

NextAnalyze == DirectAnalyze

SpecAnalyze == Init /\ [][NextAnalyze]_vars

(***************************************************************************)
(* The status query of the dashboard thread (/api/status), called at any   *)
(* moment while the monitoring loop of the default configuration runs.     *)
(***************************************************************************)
\* datetime.isoformat(): the time as text
isoformat(time) == <<"isoformat", time[1]>>

\* NetworkDevice.to_dict (hostname and device_type, fixed by the
\* configuration, are left out)
to_dict(ip, device) ==
    [ip |-> ip,
     status |-> device.status,
     last_seen |-> IF device.last_seen # PyNone
                   THEN isoformat(device.last_seen) ELSE PyNone,
     failure_count |-> device.failure_count,
     priority |-> DeviceConfig[ip],
     interfaces |-> device.interfaces]

\* sum(1 for d in self.devices.values() if d.status == status)
count_status(devs, status) ==
    Cardinality({ip \in DOMAIN devs : devs[ip].status = status})

\* get_system_status: the dict returned (devices by ip, in place of the list)
get_system_status(devs, now) ==
    [called |-> TRUE,
     total_devices |-> Cardinality(DOMAIN devs),
     devices_up |-> count_status(devs, "up"),
     devices_down |-> count_status(devs, "down"),
     devices_unknown |-> count_status(devs, "unknown"),
     last_update |-> isoformat(Num(now)),
     devices |-> [ip \in DOMAIN devs |-> to_dict(ip, devs[ip])]]

\* api_status: jsonify(monitor_instance.get_system_status())
GetSystemStatus ==
    /\ loop_pc # "stopped"
    /\ system_status' = get_system_status(devices, cycle)
    /\ UNCHANGED <<config, loopvars, devices, tasks, run, last_reply,
                   cyclevars, dispatch_result, handler_calls, analyzed,
                   historyvars>>

\* default_config: remediation and alerts enabled, smtp disabled
InitQuery ==
    /\ Init
    /\ config = [remediation_enabled |-> TRUE, alert_enabled |-> TRUE,
                 smtp_enabled |-> FALSE]

NextQuery ==
    \/ StartMonitoring
    \/ StartCycle
    \/ \E t \in tasks : CheckDeviceHealth(t)
    \/ \E t \in tasks : AnalyzeHealth(t)
    \/ \E t \in tasks : DispatchIssue(t)
    \/ \E t \in tasks : RemediationReturns(t)
    \/ GatherReturns
    \/ SleepElapsed
    \/ KeyboardInterrupt
    \/ GetSystemStatus

SpecQuery == InitQuery /\ [][NextQuery]_vars

(***************************************************************************)
(* Vocabulary of the properties                                            *)
(***************************************************************************)
IsPrefix(a, b) == Len(a) <= Len(b) /\ \A i \in 1..Len(a) : a[i] = b[i]

Has(seq, x) == \E i \in DOMAIN seq : seq[i] = x

LoggedTypes(d) ==
    [i \in DOMAIN remediation_log[d] |-> remediation_log[d][i].issue_type]

AlertedTypes(d) == [i \in DOMAIN alerts[d] |-> alerts[d][i].issue_type]

\* the coroutine of device d has returned and gather has not yet
TaskReturned(d) == \E t \in tasks : t.device = d /\ t.pc = "done"

\* every coroutine of the batch has returned, gather is about to
CycleComplete ==
    loop_pc = "gather" /\ tasks # {} /\ \A t \in tasks : t.pc = "done"

\* the step is a check_device_health of device d
PolledNow(d) == polled'[d] = polled[d] + 1

\* the dict that check returned
SnapshotOf(d) ==
    (CHOOSE t \in tasks' : t.device = d /\ t.pc = "analyze").health_data

(***************************************************************************)
(* C1: at most one remediation is in flight per device at any time: the    *)
(* remediate_issue calls of one device in one cycle are made in the order  *)
(* the issues were raised, each only after the previous one has returned,  *)
(* none is still running between two cycles or belongs to an earlier       *)
(* cycle; remediations of different devices may be in flight together.     *)
(***************************************************************************)
C1_OneRemediationPerDevice ==
    /\ \A d \in Devices :
          /\ in_flight[d] <= 1
          /\ IsPrefix(attempts[d], raised[d])
          /\ Len(attempts[d]) = Len(remediation_log[d]) + in_flight[d]
          /\ loop_pc \in {"while", "sleep"} => in_flight[d] = 0
    /\ \A t \in tasks : t.pc = "remediate" => t.cycle = cycle

\* the second issue of one device is being remediated after the first has
\* returned, while the other device has a remediation in flight too
C1_Witness ==
    \E d1, d2 \in Devices :
        /\ d1 # d2
        /\ in_flight[d1] = 1
        /\ Len(attempts[d1]) = 2
        /\ Len(remediation_log[d1]) = 1
        /\ in_flight[d2] = 1

(***************************************************************************)
(* C2: a poll whose snapshot has reachable = true leaves failure_count at  *)
(* 0; a poll whose snapshot has reachable = false, a collector fault       *)
(* included, leaves it exactly one more than it was.                       *)
(***************************************************************************)
C2_FailureCount ==
    [][\A d \in Devices :
          PolledNow(d) =>
            /\ SnapshotOf(d).reachable => devices'[d].failure_count = 0
            /\ ~SnapshotOf(d).reachable =>
                  devices'[d].failure_count = devices[d].failure_count + 1
            /\ last_reply'[d] = "exception" =>
                  devices'[d].failure_count = devices[d].failure_count + 1]_vars

\* one device has just failed its second poll in a row, the other has just
\* answered one
C2_Witness ==
    \E t1, t2 \in tasks :
        /\ t1.pc = "analyze" /\ t2.pc = "analyze"
        /\ ~t1.health_data.reachable
        /\ devices[t1.device].failure_count = 2
        /\ t2.health_data.reachable
        /\ devices[t2.device].failure_count = 0

(***************************************************************************)
(* C3: in every cycle and for every device, device_unresponsive is raised  *)
(* iff the snapshot of that cycle has reachable = false and the failure    *)
(* count, read after the failed poll, is at least the threshold.           *)
(***************************************************************************)
C3_UnresponsiveIff ==
    [][\A t \in tasks :
          (t.pc = "analyze" /\ saved'[t.device] = saved[t.device] + 1) =>
            (Has(raised'[t.device], "device_unresponsive")
               <=> (/\ ~t.health_data.reachable
                    /\ devices[t.device].failure_count >= FailureThreshold))]_vars

(***************************************************************************)
(* C4: no unresponsive issue, alert or reboot is issued for a device whose *)
(* current run of consecutive unsuccessful polls is shorter than the       *)
(* threshold; a successful poll ends the run.                              *)
(***************************************************************************)
UnresponsiveIssued(d) ==
    \/ Has(raised[d], "device_unresponsive")
    \/ Has(AlertedTypes(d), "device_unresponsive")
    \/ Has(attempts[d], "device_unresponsive")

C4_Hysteresis ==
    \A d \in Devices : UnresponsiveIssued(d) => run[d] >= FailureThreshold

\* a device that answered once and then failed threshold polls in a row is
\* alerted on and rebooted
C4_Witness ==
    \E d \in Devices :
        /\ Has(AlertedTypes(d), "device_unresponsive")
        /\ Has(attempts[d], "device_unresponsive")
        /\ run[d] = FailureThreshold
        /\ devices[d].last_seen # PyNone

(***************************************************************************)
(* C5: with remediation enabled every raised issue gets exactly one        *)
(* remediate_issue call and exactly one log_remediation call in its cycle, *)
(* in order and whatever the result; with remediation disabled there is    *)
(* neither.                                                                *)
(***************************************************************************)
C5_OneRecordPerIssue ==
    \A d \in Devices :
        /\ config.remediation_enabled =>
              /\ IsPrefix(attempts[d], raised[d])
              /\ IsPrefix(LoggedTypes(d), attempts[d])
              /\ (TaskReturned(d) /\ analysis[d] = "returned") =>
                    /\ attempts[d] = raised[d]
                    /\ LoggedTypes(d) = raised[d]
        /\ ~config.remediation_enabled =>
              attempts[d] = <<>> /\ remediation_log[d] = <<>>

\* a device whose three issues were each remediated once, one failing and
\* one succeeding
C5_Witness ==
    \E d \in Devices :
        /\ config.remediation_enabled
        /\ TaskReturned(d)
        /\ Len(raised[d]) = 3
        /\ Len(remediation_log[d]) = 3
        /\ \E i, j \in DOMAIN remediation_log[d] :
              ~remediation_log[d][i].success /\ remediation_log[d][j].success

(***************************************************************************)
(* C6: a fault for device a in a cycle (collector, analysis, alert or      *)
(* remediation) does not keep device b from being polled, persisted,       *)
(* analyzed, alerted on and remediated in that cycle.                      *)
(***************************************************************************)
Faulted(d) ==
    \/ polled[d] = 1 /\ last_reply[d] = "exception"
    \/ analysis[d] = "raised"
    \/ \E i \in DOMAIN alerts[d] : alerts[d][i].outcome = "failed"
    \/ \E i \in DOMAIN remediation_log[d] : ~remediation_log[d][i].success

Processed(d) ==
    /\ polled[d] = 1
    /\ saved[d] = 1
    /\ analysis[d] # "none"
    /\ analysis[d] = "returned" =>
          /\ config.alert_enabled => AlertedTypes(d) = raised[d]
          /\ config.remediation_enabled => LoggedTypes(d) = raised[d]

C6_FaultIsolation ==
    CycleComplete =>
        \A a, b \in Devices : (a # b /\ Faulted(a)) => Processed(b)

\* one device's check raised, the other answered and its issues were all
\* alerted on and remediated
C6_Witness ==
    /\ CycleComplete
    /\ \E a, b \in Devices :
          /\ a # b
          /\ last_reply[a] = "exception"
          /\ last_reply[b] = "ok"
          /\ Len(raised[b]) >= 2
          /\ AlertedTypes(b) = raised[b]
          /\ LoggedTypes(b) = raised[b]

(***************************************************************************)
(* C7: the coroutines gather awaits all belong to the current cycle, one   *)
(* per device, so no check of cycle n+1 starts before every coroutine of   *)
(* cycle n has returned, and every device is polled exactly once a cycle.  *)
(***************************************************************************)
C7_CycleBarrier ==
    /\ \A t \in tasks : t.cycle = cycle
    /\ \A d \in Devices :
          /\ Cardinality({t \in tasks : t.device = d}) <= 1
          /\ polled[d] <= 1
          /\ loop_pc = "gather" => \E t \in tasks : t.device = d
    /\ CycleComplete => \A d \in Devices : polled[d] = 1

\* in the second cycle one device has been polled and is done while the
\* check of the other has not returned
C7_Witness ==
    /\ cycle = 2
    /\ \E t1, t2 \in tasks :
          /\ t1.pc = "check" /\ polled[t1.device] = 0
          /\ t2.pc = "done" /\ polled[t2.device] = 1

(***************************************************************************)
(* C8: a successful poll sets status up and last_seen to the poll time; a  *)
(* clean unreachable answer sets status down; an exception in the check    *)
(* sets status error and returns reachable = false; an unsuccessful poll   *)
(* leaves last_seen alone; status never goes back to unknown.              *)
(***************************************************************************)
C8_StatusMachine ==
    [][\A d \in Devices :
          /\ devices[d].status # "unknown" => devices'[d].status # "unknown"
          /\ PolledNow(d) =>
                /\ devices'[d].status # "unknown"
                /\ last_reply'[d] = "ok" =>
                      /\ devices'[d].status = "up"
                      /\ devices'[d].last_seen = Num(cycle)
                      /\ SnapshotOf(d).reachable
                /\ last_reply'[d] = "errorIndication" =>
                      /\ devices'[d].status = "down"
                      /\ devices'[d].last_seen = devices[d].last_seen
                      /\ ~SnapshotOf(d).reachable
                /\ last_reply'[d] = "exception" =>
                      /\ devices'[d].status = "error"
                      /\ devices'[d].last_seen = devices[d].last_seen
                      /\ ~SnapshotOf(d).reachable]_vars

\* a device seen in an earlier cycle whose check has just raised
C8_Witness ==
    \E t \in tasks :
        /\ t.pc = "analyze"
        /\ "error" \in DOMAIN t.health_data
        /\ devices[t.device].status = "error"
        /\ devices[t.device].last_seen # PyNone
        /\ devices[t.device].last_seen # Num(cycle)

(***************************************************************************)
(* C9: a fault of the session inside a remediation handler comes back from *)
(* remediate_issue as a result with success = false and an error field;    *)
(* it is logged with success = false and the remaining issues of the       *)
(* device are still remediated in the same cycle.                          *)
(***************************************************************************)
C9_HandlerFaultContained ==
    \A d \in Devices :
        /\ Len(sessions[d]) = Len(remediation_log[d])
        /\ \A i \in DOMAIN remediation_log[d] :
              sessions[d][i] = "raises" =>
                /\ ~remediation_log[d][i].success
                /\ ~remediation_log[d][i].details.success
                /\ "error" \in DOMAIN remediation_log[d][i].details
        /\ (config.remediation_enabled /\ TaskReturned(d)
              /\ analysis[d] = "returned") => LoggedTypes(d) = raised[d]

\* the handler of the first issue faulted and the later issues of the device
\* were remediated all the same
C9_Witness ==
    \E d \in Devices :
        /\ TaskReturned(d)
        /\ Len(raised[d]) >= 2
        /\ Len(remediation_log[d]) = Len(raised[d])
        /\ sessions[d][1] = "raises"
        /\ ~remediation_log[d][1].success
        /\ remediation_log[d][2].success

(***************************************************************************)
(* C10: remediate_issue for an issue type with no registered handler       *)
(* returns success = false and the message 'No remediation for <type>',    *)
(* and invokes no handler.                                                 *)
(***************************************************************************)
Unregistered(call) ==
    call.issue_type # "" /\ call.issue_type \notin DOMAIN remediation_methods

C10_NoHandler ==
    [][(Unregistered(dispatch_result') /\ dispatch_result' # dispatch_result) =>
          /\ dispatch_result'.result.success = FALSE
          /\ DictGet(dispatch_result'.result, "message", <<>>) =
                <<"No remediation for ", dispatch_result'.issue_type>>
          /\ "error" \notin DOMAIN dispatch_result'.result
          /\ dispatch_result'.invoked = <<>>
          /\ handler_calls' = handler_calls]_vars

\* C10 as stated: the message is "unsupported"
C10_Unsupported ==
    Unregistered(dispatch_result) =>
        /\ dispatch_result.result.success = FALSE
        /\ dispatch_result.result.message = <<"unsupported">>

\* an unregistered type was dispatched after a registered one
C10_Witness ==
    /\ dispatch_result.issue_type = "link_flap"
    /\ ~dispatch_result.result.success
    /\ Len(handler_calls) = 1

(***************************************************************************)
(* C11: in every cycle and for every device, interface_down is raised iff  *)
(* the snapshot of that cycle has reachable = true and at least one of its *)
(* interfaces has status down.                                             *)
(***************************************************************************)
HasDownInterface(health_data) ==
    \E i \in DOMAIN DictGet(health_data, "interfaces", EmptyDict) :
        health_data.interfaces[i].status = "down"

C11_InterfaceDownIff ==
    [][\A t \in tasks :
          (t.pc = "analyze" /\ saved'[t.device] = saved[t.device] + 1) =>
            (Has(raised'[t.device], "interface_down")
               <=> (/\ t.health_data.reachable
                    /\ HasDownInterface(t.health_data)))]_vars

(***************************************************************************)
(* C12: whenever _analyze_health_data raises interface_down, the           *)
(* interfaces of its details are exactly the interfaces of the snapshot    *)
(* whose status is down, each with the value it has in the snapshot.       *)
(***************************************************************************)
DownSubset(health_data) ==
    {i \in DOMAIN health_data.interfaces :
        health_data.interfaces[i].status = "down"}

C12_ExactlyDownSubset ==
    \A k \in DOMAIN analyzed.issues :
        analyzed.issues[k].issue_type = "interface_down" =>
            LET reported == analyzed.issues[k].details.interfaces
            IN /\ DOMAIN reported = DownSubset(analyzed.health_data)
               /\ \A i \in DOMAIN reported :
                     /\ reported[i] = analyzed.health_data.interfaces[i]
                     /\ reported[i].status = "down"

\* a snapshot with one interface up and one down raised interface_down
C12_Witness ==
    /\ analyzed.called
    /\ Has(IssueTypes(analyzed.issues), "interface_down")
    /\ \E i, j \in DOMAIN analyzed.health_data.interfaces :
          /\ analyzed.health_data.interfaces[i].status = "up"
          /\ analyzed.health_data.interfaces[j].status = "down"

(***************************************************************************)
(* C13: high_cpu (memory_leak) is raised iff the cpu (memory) metric of    *)
(* the snapshot has a value and the value is strictly above 80 (85); the   *)
(* details carry that value; a metric at the threshold or without a value  *)
(* raises no such issue.                                                   *)
(***************************************************************************)
MetricAbove(health_data, metric, threshold) ==
    /\ metric \in DOMAIN health_data
    /\ health_data[metric] # PyNone
    /\ health_data[metric][1] > threshold

C13_MetricRules ==
    analyzed.called =>
        /\ Has(IssueTypes(analyzed.issues), "high_cpu")
              <=> MetricAbove(analyzed.health_data, "cpu_usage", CpuThreshold)
        /\ Has(IssueTypes(analyzed.issues), "memory_leak")
              <=> MetricAbove(analyzed.health_data, "memory_usage",
                              MemoryThreshold)
        /\ \A k \in DOMAIN analyzed.issues :
              /\ analyzed.issues[k].issue_type = "high_cpu" =>
                    analyzed.issues[k].details.cpu_usage =
                        analyzed.health_data.cpu_usage
              /\ analyzed.issues[k].issue_type = "memory_leak" =>
                    analyzed.issues[k].details.memory_usage =
                        analyzed.health_data.memory_usage

(***************************************************************************)
(* C14: with alerting enabled every issue raised in a cycle gets exactly   *)
(* one send_alert call in that cycle, in the order raised, whether or not  *)
(* it was raised and notified before: a device_unresponsive raised in k    *)
(* consecutive cycles has been notified k times.                           *)
(***************************************************************************)
C14_OneAlertPerIssue ==
    config.alert_enabled =>
        \A d \in Devices :
            /\ IsPrefix(AlertedTypes(d), raised[d])
            /\ unresponsive_alerts[d] <= unresponsive_cycles[d]
            /\ (TaskReturned(d) /\ analysis[d] = "returned") =>
                  AlertedTypes(d) = raised[d]
            /\ (TaskReturned(d) \/ loop_pc \in {"while", "sleep"}) =>
                  unresponsive_alerts[d] = unresponsive_cycles[d]

\* a device raised device_unresponsive in two cycles in a row and was
\* notified in each
C14_Witness ==
    \E d \in Devices :
        /\ config.alert_enabled
        /\ TaskReturned(d)
        /\ AlertedTypes(d) = <<"device_unresponsive">>
        /\ unresponsive_cycles[d] = 2
        /\ unresponsive_alerts[d] = 2

(***************************************************************************)
(* C15: the severity of every send_alert call is critical when the         *)
(* priority of the device is critical and medium otherwise, whatever the   *)
(* issue type.                                                             *)
(***************************************************************************)
C15_SeverityFromPriority ==
    \A d \in Devices :
        \A i \in DOMAIN alerts[d] :
            /\ DeviceConfig[d] = "critical" =>
                  alerts[d][i].severity = "critical"
            /\ DeviceConfig[d] # "critical" =>
                  alerts[d][i].severity = "medium"

\* in one cycle the critical device and the other one were each notified of
\* two kinds of issue
C15_Witness ==
    \E c, h \in Devices :
        /\ DeviceConfig[c] = "critical" /\ DeviceConfig[h] = "high"
        /\ Len(alerts[c]) = 2 /\ alerts[c][1].severity = "critical"
        /\ Len(alerts[h]) = 2 /\ alerts[h][2].severity = "medium"
        /\ alerts[c][1].issue_type # alerts[c][2].issue_type
        /\ alerts[h][1].issue_type # alerts[h][2].issue_type

(***************************************************************************)
(* C16: save_monitoring_data is called exactly once per device per cycle,  *)
(* after the check whatever it returned, and before the analysis, the      *)
(* alerts and the remediations of the device, whatever happens in them.    *)
(***************************************************************************)
C16_OneSnapshotPerCycle ==
    /\ \A d \in Devices :
          /\ saved[d] <= 1
          /\ saved[d] <= polled[d]
          /\ (analysis[d] # "none" \/ TaskReturned(d)) => saved[d] = 1
          /\ \A t \in tasks :
                (t.device = d /\ t.pc \in {"issue", "remediate"}) =>
                    saved[d] = 1
    /\ CycleComplete => \A d \in Devices : saved[d] = 1

\* a cycle is over in which the check of one device raised and the analysis
\* of the other raised
C16_Witness ==
    /\ CycleComplete
    /\ \E a, b \in Devices :
          /\ a # b
          /\ last_reply[a] = "exception" /\ saved[a] = 1
          /\ last_reply[b] = "ok" /\ analysis[b] = "raised" /\ saved[b] = 1

(***************************************************************************)
(* C17: the loop stops only on the shutdown signal, and only between two   *)
(* cycles: when it stops no coroutine of a batch is left unfinished.       *)
(***************************************************************************)
C17_StopAtCycleBoundary ==
    [][(loop_pc' = "stopped" /\ loop_pc # "stopped") =>
          /\ KeyboardInterrupt
          /\ loop_pc \in {"while", "sleep"}
          /\ \A t \in tasks : t.pc = "done"]_vars

(***************************************************************************)
(* C18: whatever faults the checks, analyses, alerts and remediations of a *)
(* cycle meet, the cycle is followed by the next one unless the program    *)
(* is interrupted.                                                         *)
(***************************************************************************)
C18_LoopGoesOn ==
    \A n \in 1..(MaxCycles - 1) :
        (cycle = n) ~> (cycle = n + 1 \/ loop_pc = "stopped")

\* the second cycle has started after a cycle in which the check of one
\* device raised and the other device was unreachable
C18_Witness ==
    /\ cycle = 2
    /\ loop_pc = "gather"
    /\ \E a, b \in Devices :
          /\ polled[a] = 0 /\ devices[a].status = "error"
          /\ polled[b] = 0 /\ devices[b].status = "down"

(***************************************************************************)
(* C19: a remediation that has not returned does not hold back the loop:   *)
(* once every coroutine of the batch has returned or is only waiting for   *)
(* its remediation, gather can return and the next cycle can start.        *)
(***************************************************************************)
C19_RemediationOffTheBatch ==
    (/\ loop_pc = "gather"
     /\ tasks # {}
     /\ \A t \in tasks : t.pc \in {"done", "remediate"})
        => ENABLED GatherReturns

(***************************************************************************)
(* C20: a check that ends by its timeout is handled as a collector fault:  *)
(* status error, failure count one more, snapshot with reachable = false   *)
(* handed on.                                                              *)
(***************************************************************************)
C20_TimeoutIsCollectorFault ==
    (/\ analyzed.called
     /\ analyzed.reply.kind = "errorIndication"
     /\ analyzed.reply.indication = "requestTimedOut")
        => /\ analyzed.device.status = "error"
           /\ analyzed.device.failure_count =
                 analyzed.before.failure_count + 1
           /\ ~analyzed.health_data.reachable

(***************************************************************************)
(* C21: after a successful poll the interfaces field of the device equals  *)
(* the interface map of that poll's snapshot; an unsuccessful poll leaves  *)
(* the field as it was.                                                    *)
(***************************************************************************)
C21_LastKnownInterfaces ==
    [][\A d \in Devices :
          PolledNow(d) =>
            /\ last_reply'[d] = "ok" =>
                  devices'[d].interfaces = SnapshotOf(d).interfaces
            /\ last_reply'[d] # "ok" =>
                  devices'[d].interfaces = devices[d].interfaces]_vars

(***************************************************************************)
(* C22: get_system_status returns one entry per registered device showing  *)
(* its current state, and its per-status counts add up to total_devices:   *)
(* every device is counted under its status.                               *)
(***************************************************************************)
C22_CountsAccountForAll ==
    system_status.called =>
        /\ DOMAIN system_status.devices = Devices
        /\ system_status.total_devices = Cardinality(Devices)
        /\ system_status.devices_up + system_status.devices_down
             + system_status.devices_unknown = system_status.total_devices

(***************************************************************************)
(* C23: for a snapshot whose cpu and memory metrics have no value, as      *)
(* check_device_health returns it, the analysis still returns              *)
(* device_unresponsive when the device is unreachable with its failure     *)
(* count at the threshold or past it, and interface_down when it is        *)
(* reachable with an interface down.                                       *)
(***************************************************************************)
NoMetricValue(health_data) ==
    /\ DictGet(health_data, "cpu_usage", PyNone) = PyNone
    /\ DictGet(health_data, "memory_usage", PyNone) = PyNone

C23_RulesIndependentOfMetrics ==
    (analyzed.called /\ NoMetricValue(analyzed.health_data)) =>
        /\ (/\ ~analyzed.health_data.reachable
            /\ analyzed.device.failure_count >= FailureThreshold)
              => Has(IssueTypes(analyzed.issues), "device_unresponsive")
        /\ (/\ analyzed.health_data.reachable
            /\ HasDownInterface(analyzed.health_data))
              => Has(IssueTypes(analyzed.issues), "interface_down")

(***************************************************************************)
(* C24: status, failure_count, last_seen and interfaces of a device change *)
(* only in the step in which that device is checked: the persistence and   *)
(* analysis step, the alerts, the remediations, the loop steps and         *)
(* get_system_status leave every device as it is, and the check of one     *)
(* device leaves the other devices as they are.                            *)
(***************************************************************************)
C24_OnlyThePollWrites ==
    [][/\ \A d \in Devices : devices'[d] # devices[d] => PolledNow(d)
       /\ (\A d \in Devices : ~PolledNow(d)) => devices' = devices
       /\ system_status' # system_status => devices' = devices]_vars

\* a device whose check raised has been analysed, notified, remediated and
\* shown by the status query as the check left it, next to a device that
\* answered
C24_Witness ==
    \E a, b \in Devices :
        /\ devices[a].status = "error"
        /\ alerts[a] # <<>>
        /\ remediation_log[a] # <<>>
        /\ system_status.called
        /\ system_status.devices[a].status = "error"
        /\ system_status.devices[a].failure_count = devices[a].failure_count
        /\ devices[b].status = "up"
        /\ devices[b].failure_count = 0

(***************************************************************************)
(* C25: between two cycles every device is in one of these states: never   *)
(* polled (status unknown, failure_count 0, last_seen None); up with       *)
(* failure_count 0 and last_seen set; down or error with failure_count at  *)
(* least 1; and failure_count is the number of unsuccessful polls since    *)
(* the last successful one.                                                *)
(***************************************************************************)
C25_DeviceStateAtBoundary ==
    loop_pc \in {"idle", "while", "sleep"} =>
        \A d \in Devices :
            /\ devices[d].status \in {"unknown", "up", "down", "error"}
            /\ devices[d].failure_count = run[d]
            /\ devices[d].status = "unknown" =>
                  /\ devices[d].failure_count = 0
                  /\ devices[d].last_seen = PyNone
                  /\ cycle = 0
            /\ devices[d].status = "up" =>
                  /\ devices[d].failure_count = 0
                  /\ devices[d].last_seen # PyNone
            /\ devices[d].status \in {"down", "error"} =>
                  devices[d].failure_count >= 1

\* after three cycles one device is up and the other, seen once, has failed
\* its last two polls, the last of them by an exception
C25_Witness ==
    /\ loop_pc = "sleep"
    /\ cycle = 3
    /\ \E a, b \in Devices :
          /\ devices[a].status = "up"
          /\ devices[a].last_seen = Num(3)
          /\ devices[b].status = "error"
          /\ devices[b].failure_count = 2
          /\ devices[b].last_seen = Num(1)

(***************************************************************************)
(* C26: every issue type the analysis returns in the loop has an entry in  *)
(* remediation_methods and occurs once among the issues of its device in   *)
(* the cycle; so no remediate_issue call of the loop ends in the           *)
(* 'No remediation for' branch and a device gets at most four              *)
(* remediate_issue calls in a cycle.                                       *)
(***************************************************************************)
NoHandlerResult(result) ==
    /\ "message" \in DOMAIN result
    /\ result.message[1] = "No remediation for "

C26_EveryIssueHasHandler ==
    \A d \in Devices :
        /\ \A i \in DOMAIN raised[d] :
              /\ raised[d][i] \in DOMAIN remediation_methods
              /\ \A j \in DOMAIN raised[d] :
                    raised[d][i] = raised[d][j] => i = j
        /\ \A i \in DOMAIN attempts[d] :
              attempts[d][i] \in DOMAIN remediation_methods
        /\ Len(attempts[d]) <= Cardinality(DOMAIN remediation_methods)
        /\ Len(attempts[d]) <= 4
        /\ \A i \in DOMAIN remediation_log[d] :
              ~NoHandlerResult(remediation_log[d][i].details)

\* a device had three issues of three types in one cycle and each was
\* handled by its registered handler
C26_Witness ==
    \E d \in Devices :
        /\ TaskReturned(d)
        /\ Len(raised[d]) = 3
        /\ attempts[d] = raised[d]
        /\ Len(remediation_log[d]) = 3
        /\ \A i \in DOMAIN remediation_log[d] :
              /\ remediation_log[d][i].issue_type = raised[d][i]
              /\ ~NoHandlerResult(remediation_log[d][i].details)
        /\ Has(raised[d], "device_unresponsive")
        /\ Has(raised[d], "memory_leak")

====
